---- MODULE Spec2Model ----
(***************************************************************************)
(* Model of the diarization pipeline of diarizacao.py: split_audio,        *)
(* diarize_chunk_simple, merge_consecutive_segments,                       *)
(* align_transcription_with_speakers and the part of main() that chains    *)
(* them.  Times are integers (ticks of a fixed fraction of a second); the  *)
(* code only adds, subtracts and compares them.                            *)
(***************************************************************************)
EXTENDS Integers, Sequences, FiniteSets, TLC

VARIABLES
    pc,               \* position in main(): probe, split, diarize, merge, ...
    probe,            \* what ffprobe answers for the audio file
    duration,         \* split_audio: duration
    chunk_duration,   \* config['CHUNK_DURATION']
    overlap,          \* config['OVERLAP']
    pause_threshold,  \* config['PAUSE_THRESHOLD']
    start_time,       \* split_audio: start_time
    chunks,           \* split_audio: chunks
    attempts,         \* history: every window the loop tried, with its outcome
    outcomes,         \* history: what the pipeline did on each chunk
    segments,         \* main: all_segments / merge_consecutive_segments: segments
    i,                \* merge_consecutive_segments: position in segments[1:]
    current,          \* merge_consecutive_segments: current
    merged,           \* merge_consecutive_segments: merged / main: merged_segments
    disk,             \* transcription directories and file found by main()
    aligned_results,  \* main: aligned_results
    files             \* result files written so far

vars == <<pc, probe, duration, chunk_duration, overlap, pause_threshold,
          start_time, chunks, attempts, outcomes, segments, i, current,
          merged, disk, aligned_results, files>>

----------------------------------------------------------------------------
(* Bounds of the model *)

MaxDuration == 6
MaxChunk == 3
MaxTime == 3
MaxSegs == 3
MaxPause == 1

(* Program constants *)

CHUNK_DURATION == 600
OVERLAP == 3

Min(a, b) == IF a <= b THEN a ELSE b
Max(a, b) == IF a >= b THEN a ELSE b

Speakers == {"A", "B"}
NoSegment == [start |-> 0, end |-> 0, speaker |-> "", chunk_num |-> 0]

\* The configuration of the end-to-end scenario: 1200 s of audio, default
\* chunk length and overlap.
Scenario == [duration |-> 2 * CHUNK_DURATION, chunk_duration |-> CHUNK_DURATION,
             overlap |-> OVERLAP]

----------------------------------------------------------------------------
(* split_audio *)

\* end_time = min(start_time + chunk_duration, duration)
EndTimeNoClamp(st, cd, d) == st + cd
EndTime(st, cd, d) == Min(st + cd, d)

\* start_time = end_time - overlap if end_time < duration else end_time
NextStartNoOverlap(et, ov, d) == et
NextStart(et, ov, d) == IF et < d THEN et - ov ELSE et

Chunk(st, et, n) == [path |-> n, start_offset |-> st, end_offset |-> et,
                     chunk_num |-> n]

\* chunk_num = len(chunks) + 1: windows are numbered by the chunks produced so
\* far (cs), not by the windows tried so far (tried).
ChunkNumByAttempt(cs, tried) == Len(tried) + 1
ChunkNum(cs, tried) == Len(cs) + 1

\* One iteration of the while loop; ok says whether ffmpeg extracted the window.
SplitIter(ok) ==
    /\ pc = "split"
    /\ start_time < duration
    /\ LET chunk_num == ChunkNum(chunks, attempts)
           end_time == EndTime(start_time, chunk_duration, duration)
       IN  /\ chunks' = IF ok THEN Append(chunks, Chunk(start_time, end_time, chunk_num))
                              ELSE chunks
           /\ attempts' = Append(attempts, [start_offset |-> start_time,
                                            end_offset |-> end_time,
                                            chunk_num |-> chunk_num, ok |-> ok])
           /\ start_time' = NextStart(end_time, overlap, duration)
    /\ UNCHANGED <<pc, probe, duration, chunk_duration, overlap, pause_threshold,
                   outcomes, segments, i, current, merged, disk,
                   aligned_results, files>>

\* The loop condition fails: split_audio returns chunks to main().
SplitReturn ==
    /\ pc = "split"
    /\ ~(start_time < duration)
    /\ pc' = "diarize"
    /\ UNCHANGED <<probe, duration, chunk_duration, overlap, pause_threshold,
                   start_time, chunks, attempts, outcomes, segments, i, current,
                   merged, disk, aligned_results, files>>

SplitConfigs ==
    {c \in [duration : 1..MaxDuration, chunk_duration : 1..MaxChunk,
            overlap : 0..(MaxChunk - 1)] : c.chunk_duration > c.overlap}
    \cup {Scenario}

NoDisk == [dirs |-> FALSE, json |-> FALSE, content |-> <<>>]

\* What ffprobe answers: a number of seconds, or nothing float() can read
\* (or a non-zero exit status).
Probed(d) == [readable |-> TRUE, seconds |-> d]
Unreadable == [readable |-> FALSE, seconds |-> 0]

\* State of split_audio after line 127, for every valid configuration.
InitSplit ==
    /\ pc = "split"
    /\ \E c \in SplitConfigs :
          /\ duration = c.duration
          /\ probe = Probed(c.duration)
          /\ chunk_duration = c.chunk_duration
          /\ overlap = c.overlap
    /\ pause_threshold = 0
    /\ start_time = 0
    /\ chunks = <<>>
    /\ attempts = <<>>
    /\ outcomes = <<>>
    /\ segments = <<>>
    /\ i = 0
    /\ current = NoSegment
    /\ merged = <<>>
    /\ disk = NoDisk
    /\ aligned_results = <<>>
    /\ files = {}

NextSplit == (\E ok \in BOOLEAN : SplitIter(ok)) \/ SplitReturn

SpecSplit == InitSplit /\ [][NextSplit]_vars

\* split_audio is sequential code: an iteration that is possible is taken.
FairSpecSplit == SpecSplit /\ WF_vars(NextSplit)

----------------------------------------------------------------------------
(* Claims about split_audio *)

AllExtracted == \A k \in 1..Len(attempts) : attempts[k].ok

SplitDone == pc = "diarize"

\* The windows of ws union to exactly [0, d): they start at 0, leave no gap,
\* stay inside [0, d) and the last one ends at d.
CoversExactly(ws, d) ==
    /\ Len(ws) >= 1
    /\ ws[1].start_offset = 0
    /\ ws[Len(ws)].end_offset = d
    /\ \A k \in 1..(Len(ws) - 1) : ws[k + 1].start_offset <= ws[k].end_offset
    /\ \A k \in 1..Len(ws) : 0 <= ws[k].start_offset /\ ws[k].start_offset < ws[k].end_offset
                             /\ ws[k].end_offset <= d
    /\ \A t \in 0..(d - 1) :
          \E k \in 1..Len(ws) : ws[k].start_offset <= t /\ t < ws[k].end_offset

IsScenario == /\ duration = Scenario.duration
              /\ chunk_duration = Scenario.chunk_duration
              /\ overlap = Scenario.overlap

Windows(cs) == [k \in 1..Len(cs) |-> <<cs[k].start_offset, cs[k].end_offset>>]

\* C2 as stated: duration 1200, chunk length 600, overlap 3 gives exactly the
\* two windows [0,600) and [597,1200).
C2_Original ==
    (SplitDone /\ IsScenario /\ AllExtracted)
        => Windows(chunks) = << <<0, 600>>, <<597, 1200>> >>

\* C2 amended: duration 1200, chunk length 600, overlap 3 gives exactly three
\* windows: [0,600), [597,1197) and [1194,1200).
C2_ThreeWindows ==
    (SplitDone /\ IsScenario /\ AllExtracted)
        => Windows(chunks) = << <<0, 600>>, <<597, 1197>>, <<1194, 1200>> >>

C2_Witness == SplitDone /\ IsScenario /\ AllExtracted

----------------------------------------------------------------------------
(* merge_consecutive_segments *)

Seg(st, en, sp) == [start |-> st, end |-> en, speaker |-> sp, chunk_num |-> 1]

\* list.sort(key=start) is stable: an element goes after every element whose
\* start is not greater than its own.
RECURSIVE InsertBeforeTies(_, _)
InsertBeforeTies(sorted, x) ==
    IF sorted = <<>> THEN <<x>>
    ELSE IF Head(sorted).start < x.start
         THEN <<Head(sorted)>> \o InsertBeforeTies(Tail(sorted), x)
         ELSE <<x>> \o sorted

RECURSIVE InsertByStart(_, _)
InsertByStart(sorted, x) ==
    IF sorted = <<>> THEN <<x>>
    ELSE IF Head(sorted).start <= x.start
         THEN <<Head(sorted)>> \o InsertByStart(Tail(sorted), x)
         ELSE <<x>> \o sorted

RECURSIVE SortFrom(_, _)
SortFrom(sorted, rest) ==
    IF rest = <<>> THEN sorted
    ELSE SortFrom(InsertByStart(sorted, Head(rest)), Tail(rest))

\* segments.sort(key=lambda x: x["start"])
NoSort(segs) == segs
SortByStart(segs) == SortFrom(<<>>, segs)

\* segment["speaker"] == current["speaker"] and pause <= pause_threshold
AbsorbsEither(cur, s, t) ==
    s.speaker = cur.speaker \/ (s.start - cur.end) <= t
AbsorbsTouching(cur, s, t) ==
    s.speaker = cur.speaker /\ (s.start - cur.end) <= Max(t, 0)
AbsorbsStrict(cur, s, t) ==
    s.speaker = cur.speaker /\ (s.start - cur.end) < t
Absorbs(cur, s, t) ==
    LET pause == s.start - cur.end
    IN  s.speaker = cur.speaker /\ pause <= t

\* current["end"] = segment["end"]
Extend(cur, s) == [cur EXCEPT !.end = s.end]

\* The for loop over segments[1:], from current and merged on.
RECURSIVE MergeLoop(_, _, _, _)
MergeLoop(cur, acc, rest, t) ==
    IF rest = <<>> THEN Append(acc, cur)
    ELSE IF Absorbs(cur, Head(rest), t)
         THEN MergeLoop(Extend(cur, Head(rest)), acc, Tail(rest), t)
         ELSE MergeLoop(Head(rest), Append(acc, cur), Tail(rest), t)

\* The function as a whole.
merge_consecutive_segments(segs, t) ==
    IF segs = <<>> THEN <<>>
    ELSE LET sorted == SortByStart(segs)
         IN  MergeLoop(sorted[1], <<>>, Tail(sorted), t)

\* Lines 202-209: empty input returns []; otherwise sort in place and start
\* from the first segment.
MergeBegin ==
    /\ pc = "merge"
    /\ IF segments = <<>>
       THEN /\ merged' = <<>>
            /\ pc' = "find_transcription"
            /\ UNCHANGED <<segments, current, i>>
       ELSE /\ segments' = SortByStart(segments)
            /\ current' = segments'[1]
            /\ merged' = <<>>
            /\ i' = 2
            /\ pc' = "merge_loop"
    /\ UNCHANGED <<probe, duration, chunk_duration, overlap, pause_threshold,
                   start_time, chunks, attempts, outcomes, disk,
                   aligned_results, files>>

\* Lines 211-221: one iteration of the for loop.
MergeIter ==
    /\ pc = "merge_loop"
    /\ i <= Len(segments)
    /\ LET segment == segments[i]
       IN  IF Absorbs(current, segment, pause_threshold)
           THEN /\ current' = Extend(current, segment)
                /\ UNCHANGED merged
           ELSE /\ merged' = Append(merged, current)
                /\ current' = segment
    /\ i' = i + 1
    /\ UNCHANGED <<pc, probe, duration, chunk_duration, overlap, pause_threshold,
                   start_time, chunks, attempts, outcomes, segments, disk,
                   aligned_results, files>>

\* Lines 223-226: the last current is appended and merged is returned.
MergeReturn ==
    /\ pc = "merge_loop"
    /\ i > Len(segments)
    /\ merged' = Append(merged, current)
    /\ pc' = "find_transcription"
    /\ UNCHANGED <<probe, duration, chunk_duration, overlap, pause_threshold,
                   start_time, chunks, attempts, outcomes, segments, i, current,
                   disk, aligned_results, files>>

TimePairs == {p \in (0..MaxTime) \X (0..MaxTime) : p[1] < p[2]}
SegSet == {Seg(p[1], p[2], sp) : p \in TimePairs, sp \in Speakers}

SeqsUpTo(S, n) == UNION {[1..k -> S] : k \in 0..n}

PauseThresholds == (0 - 1)..MaxPause

\* The examples of the documentation (in tenths of a second) and some longer
\* lists: a contained segment, a chain of touching segments, interleaved labels.
MergeScenarios ==
    { [segments |-> <<Seg(0, 100, "A"), Seg(102, 150, "A")>>, pause_threshold |-> 5],
      [segments |-> <<Seg(0, 100, "A"), Seg(102, 150, "A")>>, pause_threshold |-> 1],
      [segments |-> <<Seg(0, 100, "A"), Seg(90, 200, "B")>>, pause_threshold |-> 5],
      [segments |-> <<Seg(0, 100, "A"), Seg(90, 200, "B")>>, pause_threshold |-> 100],
      [segments |-> <<Seg(0, 10, "A"), Seg(2, 5, "A"), Seg(6, 8, "A")>>, pause_threshold |-> 0],
      [segments |-> <<Seg(0, 10, "A"), Seg(2, 5, "A"), Seg(6, 8, "A")>>, pause_threshold |-> 1],
      [segments |-> <<Seg(6, 8, "A"), Seg(0, 10, "A"), Seg(2, 5, "A")>>, pause_threshold |-> 0],
      [segments |-> <<Seg(0, 1, "A"), Seg(1, 2, "A"), Seg(2, 3, "A"), Seg(5, 6, "A")>>,
       pause_threshold |-> 0],
      [segments |-> <<Seg(0, 4, "A"), Seg(1, 2, "B"), Seg(3, 5, "A"), Seg(5, 6, "B")>>,
       pause_threshold |-> 1] }

MergeInputs ==
    [segments : SeqsUpTo(SegSet, MaxSegs), pause_threshold : PauseThresholds]
    \cup MergeScenarios

\* merge_consecutive_segments called on any list with any threshold.
InitMerge ==
    /\ pc = "merge"
    /\ \E m \in MergeInputs :
          /\ segments = m.segments
          /\ pause_threshold = m.pause_threshold
    /\ probe = Probed(0)
    /\ duration = 0
    /\ chunk_duration = CHUNK_DURATION
    /\ overlap = OVERLAP
    /\ start_time = 0
    /\ chunks = <<>>
    /\ attempts = <<>>
    /\ outcomes = <<>>
    /\ i = 0
    /\ current = NoSegment
    /\ merged = <<>>
    /\ disk = NoDisk
    /\ aligned_results = <<>>
    /\ files = {}

NextMerge == MergeBegin \/ MergeIter \/ MergeReturn

SpecMerge == InitMerge /\ [][NextMerge]_vars

----------------------------------------------------------------------------
(* Claims about merge_consecutive_segments *)

MergeDone == pc = "find_transcription"
InLoopStep == pc = "merge_loop" /\ i <= Len(segments)

\* C3: in each iteration the segment s is absorbed into current exactly when
\* it has current's speaker and s.start - current.end <= pause_threshold;
\* otherwise current is emitted unchanged and s becomes current.  For two
\* segments: different labels are never merged, same labels merge exactly
\* when their gap is at most the threshold.
C3_Iteration ==
    InLoopStep =>
        LET s == segments[i]
        IN  IF s.speaker = current.speaker
               /\ (s.start - current.end) <= pause_threshold
            THEN /\ merged' = merged
                 /\ current'.start = current.start
                 /\ current'.speaker = current.speaker
                 /\ current'.end = s.end
            ELSE /\ merged' = Append(merged, current)
                 /\ current' = s

C3_Pairs ==
    (MergeDone /\ Len(segments) = 2) =>
        LET a == segments[1]
            b == segments[2]
        IN  /\ a.speaker # b.speaker => merged = <<a, b>>
            /\ (a.speaker = b.speaker /\ b.start - a.end <= pause_threshold)
                  => (Len(merged) = 1 /\ merged[1].start = a.start)
            /\ (a.speaker = b.speaker /\ b.start - a.end > pause_threshold)
                  => merged = <<a, b>>

C3_AbsorbIff == [][C3_Iteration]_vars /\ [](C3_Pairs)

\* Two same-label segments separated by a positive gap within the threshold
\* have been merged into one.
C3_Witness ==
    /\ MergeDone
    /\ Len(segments) = 2
    /\ segments[2].start > segments[1].end
    /\ Len(merged) = 1

\* C4: when a segment is absorbed, the end of current becomes
\* max(current.end, s.end), so it never decreases.
C4_NonShrinking ==
    [][(InLoopStep /\ Absorbs(current, segments[i], pause_threshold))
          => current'.end = Max(current.end, segments[i].end)]_vars

\* C5: merging the output of a merge again, with the same threshold, returns
\* that output unchanged.
C5_Idempotent ==
    MergeDone => merge_consecutive_segments(merged, pause_threshold) = merged

C5_Witness == MergeDone /\ Len(merged) >= 2 /\ Len(merged) < Len(segments)

Covered(segs, t) == \E k \in 1..Len(segs) : segs[k].start <= t /\ t < segs[k].end

RECURSIVE MaxEnd(_)
MaxEnd(segs) == IF segs = <<>> THEN 0 ELSE Max(Head(segs).end, MaxEnd(Tail(segs)))

\* C6: with a threshold >= 0, every instant covered by an input segment is
\* covered by an output segment, so the covered duration never decreases.
C6_CoverageKept ==
    (MergeDone /\ pause_threshold >= 0) =>
        \A t \in 0..MaxEnd(segments) : Covered(segments, t) => Covered(merged, t)

----------------------------------------------------------------------------
(* align_transcription_with_speakers *)

UNKNOWN == "DESCONHECIDO"

\* overlap = max(0, min(trans_end, seg.end) - max(trans_start, seg.start))
OverlapFromStart(p, q) == Max(0, Min(p.end, q.end) - p.start)
OverlapOf(p, q) ==
    LET overlap_start == Max(p.start, q.start)
        overlap_end == Min(p.end, q.end)
    IN  Max(0, overlap_end - overlap_start)

\* if overlap > best_overlap
BetterOrEqual(ov, best_overlap) == ov >= best_overlap
Better(ov, best_overlap) == ov > best_overlap

\* The inner loop over speaker_segments, from best_speaker and best_overlap on.
RECURSIVE BestSpeaker(_, _, _, _)
BestSpeaker(p, rest, best_speaker, best_overlap) ==
    IF rest = <<>> THEN best_speaker
    ELSE LET ov == OverlapOf(p, Head(rest))
         IN  IF Better(ov, best_overlap)
             THEN BestSpeaker(p, Tail(rest), Head(rest).speaker, ov)
             ELSE BestSpeaker(p, Tail(rest), best_speaker, best_overlap)

\* The record appended for one transcription segment.
AlignOne(trans_seg, speaker_segments) ==
    [start |-> trans_seg.start, end |-> trans_seg.end, text |-> trans_seg.text,
     speaker |-> BestSpeaker(trans_seg, speaker_segments, UNKNOWN, 0)]

align_transcription_with_speakers(transcription, speaker_segments) ==
    [k \in 1..Len(transcription) |-> AlignOne(transcription[k], speaker_segments)]

\* load_transcription: [] when the directory holds no transcription file.
load_transcription(dk) == IF dk.json THEN dk.content ELSE <<>>

\* main(), lines 347-357: align with the transcription found, or keep the
\* diarization alone when no transcription directory exists.
FindTranscription ==
    /\ pc = "find_transcription"
    /\ aligned_results' =
          IF disk.dirs
          THEN align_transcription_with_speakers(load_transcription(disk), merged)
          ELSE merged
    /\ pc' = "save"
    /\ UNCHANGED <<probe, duration, chunk_duration, overlap, pause_threshold,
                   start_time, chunks, attempts, outcomes, segments, i, current,
                   merged, disk, files>>

ResultFiles == {"diarizacao_completa.txt", "diarizacao_detalhada.json"}

\* main(), lines 359-399: both result files are written.
SaveResults ==
    /\ pc = "save"
    /\ files' = files \cup ResultFiles
    /\ pc' = "done"
    /\ UNCHANGED <<probe, duration, chunk_duration, overlap, pause_threshold,
                   start_time, chunks, attempts, outcomes, segments, i, current,
                   merged, disk, aligned_results>>

Texts == {"hello"}
TransSet == {[start |-> p[1], end |-> p[2], text |-> tx] : p \in TimePairs, tx \in Texts}

MaxTrans == 1
MaxSpk == 2

Trans(st, en, tx) == [start |-> st, end |-> en, text |-> tx]

\* The documented example, {2,8,"hello"} against [{0,5,"X"},{5,10,"Y"}], and
\* longer inputs: ties after a smaller overlap, no overlap at all, no speakers.
AlignScenario ==
    [transcription |-> <<Trans(2, 8, "hello")>>,
     speaker_segments |-> <<Seg(0, 5, "X"), Seg(5, 10, "Y")>>]

AlignScenarios ==
    { AlignScenario,
      [transcription |-> <<Trans(2, 8, "hello"), Trans(20, 30, "bye")>>,
       speaker_segments |-> <<Seg(0, 3, "A"), Seg(3, 5, "B"), Seg(6, 8, "A")>>],
      [transcription |-> <<Trans(4, 9, "bye"), Trans(0, 4, "hello"), Trans(9, 12, "hello")>>,
       speaker_segments |-> <<Seg(0, 5, "A"), Seg(5, 10, "B"), Seg(3, 7, "A")>>],
      [transcription |-> <<Trans(0, 4, "hello"), Trans(4, 9, "bye")>>,
       speaker_segments |-> <<>>] }

AlignInputs ==
    [transcription : SeqsUpTo(TransSet, MaxTrans),
     speaker_segments : SeqsUpTo(SegSet, MaxSpk)]
    \cup AlignScenarios

\* align_transcription_with_speakers called on any transcription and any
\* list of speaker segments.
InitAlign ==
    /\ pc = "find_transcription"
    /\ \E a \in AlignInputs :
          /\ disk = [dirs |-> TRUE, json |-> TRUE, content |-> a.transcription]
          /\ merged = a.speaker_segments
    /\ probe = Probed(0)
    /\ duration = 0
    /\ chunk_duration = CHUNK_DURATION
    /\ overlap = OVERLAP
    /\ pause_threshold = 0
    /\ start_time = 0
    /\ chunks = <<>>
    /\ attempts = <<>>
    /\ outcomes = <<>>
    /\ segments = <<>>
    /\ i = 0
    /\ current = NoSegment
    /\ aligned_results = <<>>
    /\ files = {}

NextAlign == FindTranscription \/ SaveResults

SpecAlign == InitAlign /\ [][NextAlign]_vars

----------------------------------------------------------------------------
(* Claims about align_transcription_with_speakers *)

Aligned == pc \in {"save", "done"}

Ov(p, q) == LET d == Min(p.end, q.end) - Max(p.start, q.start)
            IN  IF d > 0 THEN d ELSE 0

\* The speaker the claim names for p: the first segment attaining the
\* maximum overlap when that maximum is positive, the sentinel otherwise.
FirstMaxSpeaker(p, qs) ==
    IF \A k \in 1..Len(qs) : Ov(p, qs[k]) = 0
    THEN "DESCONHECIDO"
    ELSE LET best == CHOOSE k \in 1..Len(qs) :
                        /\ \A j \in 1..Len(qs) : Ov(p, qs[j]) <= Ov(p, qs[k])
                        /\ \A j \in 1..(k - 1) : Ov(p, qs[j]) < Ov(p, qs[k])
         IN  qs[best].speaker

\* C7: one record per transcription segment, in input order, start/end/text
\* unchanged, speaker = label of the first speaker segment attaining the
\* maximum overlap if that maximum is > 0, "DESCONHECIDO" otherwise.
C7_AlignSpeaker ==
    (Aligned /\ disk.dirs /\ disk.json) =>
        /\ Len(aligned_results) = Len(disk.content)
        /\ \A k \in 1..Len(disk.content) :
              /\ aligned_results[k].start = disk.content[k].start
              /\ aligned_results[k].end = disk.content[k].end
              /\ aligned_results[k].text = disk.content[k].text
              /\ aligned_results[k].speaker = FirstMaxSpeaker(disk.content[k], merged)

\* Two transcription segments aligned against three speaker segments of which
\* the last two tie for the maximum overlap of the first transcription segment.
C7_Witness ==
    /\ Aligned
    /\ Len(disk.content) = 2
    /\ Len(merged) = 3
    /\ Ov(disk.content[1], merged[1]) < Ov(disk.content[1], merged[2])
    /\ Ov(disk.content[1], merged[2]) = Ov(disk.content[1], merged[3])
    /\ merged[2].speaker # merged[3].speaker
    /\ aligned_results[1].speaker = merged[2].speaker
    /\ aligned_results[2].speaker = "DESCONHECIDO"

IsAlignScenario ==
    /\ disk.dirs /\ disk.json
    /\ disk.content = AlignScenario.transcription
    /\ merged = AlignScenario.speaker_segments

\* C8 as stated: {2,8,"hello"} against [{0,5,"X"},{5,10,"Y"}] yields "Y".
C8_Original ==
    (Aligned /\ IsAlignScenario) => aligned_results[1].speaker = "Y"

\* C8 amended: {2,8,"hello"} against [{0,5,"X"},{5,10,"Y"}] yields speaker
\* "X": both overlap by 3 and the first one seen wins the tie.
C8_FirstSeenX ==
    (Aligned /\ IsAlignScenario) =>
        aligned_results = <<[start |-> 2, end |-> 8, text |-> "hello", speaker |-> "X"]>>

C8_Witness == Aligned /\ IsAlignScenario

----------------------------------------------------------------------------
(* main(): from the duration probe to the result files *)

MaxAudio == 3

OutputDir == "diarizacao_dir"

\* main() lines 325-332 and split_audio lines 122-127: the output directory
\* is created, then get_audio_duration either returns float(stdout) or calls
\* sys.exit(1) on CalledProcessError / ValueError.
GetAudioDuration ==
    /\ pc = "probe"
    /\ files' = files \cup {OutputDir}
    /\ IF probe.readable
       THEN /\ duration' = probe.seconds
            /\ start_time' = 0
            /\ chunks' = <<>>
            /\ pc' = "split"
       ELSE /\ pc' = "aborted"
            /\ UNCHANGED <<duration, start_time, chunks>>
    /\ UNCHANGED <<probe, chunk_duration, overlap, pause_threshold, attempts,
                   outcomes, segments, i, current, merged, disk, aligned_results>>

Raw(st, en, sp) == [start |-> st, end |-> en, speaker |-> sp]

\* start/end are shifted by the chunk's start_offset, chunk_num is attached.
Shifted(tracks, chunk) ==
    [k \in 1..Len(tracks) |->
        [start |-> tracks[k].start + chunk.start_offset,
         end |-> tracks[k].end + chunk.start_offset,
         speaker |-> tracks[k].speaker,
         chunk_num |-> chunk.chunk_num]]

\* diarize_chunk_simple: the tracks the model yielded, shifted; [] when the
\* pipeline call or the iteration raised (whatever was yielded before).
diarize_chunk_keep_partial(chunk, outcome) == Shifted(outcome.tracks, chunk)
diarize_chunk_simple(chunk, outcome) ==
    IF outcome.raised THEN <<>> ELSE Shifted(outcome.tracks, chunk)

\* main() lines 338-341: one iteration of the loop over chunks.
DiarizeChunk(outcome) ==
    /\ pc = "diarize"
    /\ Len(outcomes) < Len(chunks)
    /\ LET chunk == chunks[Len(outcomes) + 1]
           segs == diarize_chunk_simple(chunk, outcome)
       IN  /\ segments' = segments \o segs
           /\ outcomes' = Append(outcomes, [chunk_num |-> chunk.chunk_num,
                                            raised |-> outcome.raised,
                                            tracks |-> outcome.tracks])
    /\ UNCHANGED <<pc, probe, duration, chunk_duration, overlap, pause_threshold,
                   start_time, chunks, attempts, i, current, merged, disk,
                   aligned_results, files>>

\* The loop over chunks is exhausted: main() goes on to line 345.
DiarizeDone ==
    /\ pc = "diarize"
    /\ Len(outcomes) = Len(chunks)
    /\ pc' = "merge"
    /\ UNCHANGED <<probe, duration, chunk_duration, overlap, pause_threshold,
                   start_time, chunks, attempts, outcomes, segments, i, current,
                   merged, disk, aligned_results, files>>

\* What the model may do on a chunk: yield some tracks (times local to the
\* chunk) and return, or yield some and raise.
ModelTracks ==
    { <<>>,
      <<Raw(0, 1, "A")>>,
      <<Raw(0, 2, "A"), Raw(1, 2, "B")>> }
ModelOutcomes == [raised : BOOLEAN, tracks : ModelTracks]

ProbeResults == {Unreadable} \cup {Probed(d) : d \in (0 - 1)..MaxAudio}

DiskStates ==
    { NoDisk,
      [dirs |-> TRUE, json |-> FALSE, content |-> <<>>],
      [dirs |-> TRUE, json |-> TRUE, content |-> <<>>],
      [dirs |-> TRUE, json |-> TRUE,
       content |-> <<Trans(0, 2, "hello"), Trans(2, 4, "bye")>>] }

\* main() about to create the output directory and split the audio.
Init ==
    /\ pc = "probe"
    /\ probe \in ProbeResults
    /\ chunk_duration \in {2, 3}
    /\ overlap \in {0, 1}
    /\ pause_threshold \in {0, 1}
    /\ disk \in DiskStates
    /\ duration = 0
    /\ start_time = 0
    /\ chunks = <<>>
    /\ attempts = <<>>
    /\ outcomes = <<>>
    /\ segments = <<>>
    /\ i = 0
    /\ current = NoSegment
    /\ merged = <<>>
    /\ aligned_results = <<>>
    /\ files = {}

Next ==
    \/ GetAudioDuration
    \/ \E ok \in BOOLEAN : SplitIter(ok)
    \/ SplitReturn
    \/ \E outcome \in ModelOutcomes : DiarizeChunk(outcome)
    \/ DiarizeDone
    \/ MergeBegin
    \/ MergeIter
    \/ MergeReturn
    \/ FindTranscription
    \/ SaveResults

Spec == Init /\ [][Next]_vars

\* main() is one sequential program: whenever a step is possible it is
\* eventually taken.
FairSpec == Spec /\ WF_vars(Next)

----------------------------------------------------------------------------
(* Claims about main() *)

\* What chunk k must have contributed: nothing when the model raised on it,
\* its tracks moved to absolute time otherwise.
Contribution(k) ==
    IF outcomes[k].raised THEN <<>>
    ELSE [j \in 1..Len(outcomes[k].tracks) |->
             [start |-> outcomes[k].tracks[j].start + chunks[k].start_offset,
              end |-> outcomes[k].tracks[j].end + chunks[k].start_offset,
              speaker |-> outcomes[k].tracks[j].speaker,
              chunk_num |-> k]]

RECURSIVE ContributionsUpTo(_)
ContributionsUpTo(n) ==
    IF n = 0 THEN <<>> ELSE ContributionsUpTo(n - 1) \o Contribution(n)

SomeRaised == \E k \in 1..Len(outcomes) : outcomes[k].raised

C9_Contained ==
    /\ outcomes # <<>> => pc # "aborted"
    /\ Len(outcomes) <= Len(chunks)
    /\ \A k \in 1..Len(outcomes) : outcomes[k].chunk_num = chunks[k].chunk_num
    /\ pc \in {"diarize", "merge"} => segments = ContributionsUpTo(Len(outcomes))
    /\ pc \in {"merge", "merge_loop", "find_transcription", "save", "done"}
          => Len(outcomes) = Len(chunks)
    /\ pc = "done" => ResultFiles \subseteq files

\* C9: a raise of the model on a chunk never aborts the run: the failed chunk
\* contributes no segment, the other chunks are processed in order and their
\* segments are all accumulated, and the run goes on to merge and to write
\* its result files.
C9_ChunkFailureContained ==
    /\ [](C9_Contained)
    /\ [](SomeRaised => <>(pc = "done"))

\* The model raised on the first chunk after yielding a track, succeeded on a
\* later one, and the run has finished with that chunk's segments merged.
C9_Witness ==
    /\ pc = "done"
    /\ Len(outcomes) >= 2
    /\ outcomes[1].raised /\ outcomes[1].tracks # <<>>
    /\ ~outcomes[2].raised /\ outcomes[2].tracks # <<>>
    /\ merged # <<>>
    /\ \A k \in 1..Len(merged) : merged[k].chunk_num # 1

BadDuration == ~probe.readable \/ probe.seconds <= 0

\* C10: with an unreadable duration source, or a probed duration that is zero
\* or negative, the run aborts: no window is planned, the model is invoked on
\* no chunk and no result file is written.
C10_AbortOnBadDuration ==
    BadDuration =>
        /\ attempts = <<>>
        /\ outcomes = <<>>
        /\ files \cap ResultFiles = {}

NoTranscription == ~disk.dirs \/ ~disk.json

\* C11: when no transcription is available (no transcription directory, or a
\* directory without the transcription file), the run does not fail and its
\* output is the diarization alone: exactly the merged speaker segments.
C11_DiarizationOnly ==
    /\ (NoTranscription /\ pc \in {"save", "done"}) => aligned_results = merged
    /\ (NoTranscription /\ pc = "done") => ResultFiles \subseteq files

----------------------------------------------------------------------------
(* Claims about split_audio with failing extractions *)

Extracted(a) == a.ok

C12_Planning ==
    /\ Windows(chunks) = Windows(SelectSeq(attempts, Extracted))
    /\ \A k \in 1..Len(chunks) : chunks[k].chunk_num = k
    /\ attempts # <<>> => attempts[1].start_offset = 0
    /\ \A k \in 1..Len(attempts) :
          /\ attempts[k].start_offset < attempts[k].end_offset
          /\ attempts[k].end_offset =
                IF attempts[k].start_offset + chunk_duration <= duration
                THEN attempts[k].start_offset + chunk_duration
                ELSE duration
    /\ \A k \in 1..(Len(attempts) - 1) :
          /\ attempts[k].end_offset < duration
          /\ attempts[k + 1].start_offset = attempts[k].end_offset - overlap
    /\ SplitDone =>
          (attempts # <<>> /\ attempts[Len(attempts)].end_offset = duration)

\* C12: for duration > 0 and 0 <= overlap < chunk_length the loop of
\* split_audio terminates whichever extractions fail; a failed window is left
\* out of the result, the cursor advances all the same, every later window is
\* still tried and the chunk_num of the produced windows are 1..n in order.
C12_TerminatesDespiteFailures ==
    /\ [](C12_Planning)
    /\ <>(SplitDone)

\* The first extraction failed, two later ones succeeded, and the loop is over.
C12_Witness ==
    /\ SplitDone
    /\ ~attempts[1].ok
    /\ Len(chunks) >= 2
    /\ Len(attempts) > Len(chunks)

----------------------------------------------------------------------------
(* Claims about negative thresholds and about the shape of the output *)

\* merge_consecutive_segments has returned for two segments of one speaker
\* and a negative threshold.
NegativePair ==
    /\ MergeDone
    /\ pause_threshold < 0
    /\ Len(segments) = 2
    /\ segments[1].speaker = segments[2].speaker

PairPause == segments[2].start - segments[1].end

\* C13 as stated: with a negative threshold two same-label segments are
\* merged when they touch (pause 0) and are not merged across a positive gap.
C13_Original ==
    NegativePair =>
        /\ PairPause = 0 => Len(merged) = 1
        /\ PairPause > 0 => Len(merged) = 2

\* C13 amended: with a negative threshold two consecutive same-label
\* segments are merged only when the second starts at least |threshold|
\* before the first ends (pause <= threshold < 0); segments that touch
\* (pause 0) or are separated by a positive gap are not merged.
C13_NegativeNeedsOverlap ==
    NegativePair =>
        /\ PairPause <= pause_threshold => Len(merged) = 1
        /\ PairPause > pause_threshold => merged = segments
        /\ PairPause >= 0 => merged = segments

\* Two touching same-label segments left separate, threshold negative.
C13_Witness ==
    /\ NegativePair
    /\ PairPause = 0
    /\ Len(merged) = 2

\* C14: for a threshold >= 0 the output is non-decreasing in start, and two
\* consecutive output segments of one speaker do not overlap: the later one
\* starts more than pause_threshold after the earlier one ends.
C14_OutputShape ==
    (MergeDone /\ pause_threshold >= 0) =>
        \A k \in 1..(Len(merged) - 1) :
            /\ merged[k].start <= merged[k + 1].start
            /\ merged[k].speaker = merged[k + 1].speaker =>
                  /\ merged[k + 1].start - merged[k].end > pause_threshold
                  /\ merged[k + 1].start > merged[k].end

\* Three segments, one of them contained in the running one, gave two
\* consecutive output segments of one speaker.
C14_Witness ==
    /\ MergeDone
    /\ pause_threshold >= 0
    /\ Len(segments) = 3
    /\ Len(merged) = 2
    /\ merged[1].speaker = merged[2].speaker
    /\ merged[1].end < segments[1].end

----------------------------------------------------------------------------
(* Per-chunk results accumulated in any order *)

Processed == {outcomes[j].chunk_num : j \in 1..Len(outcomes)}

\* The loop of main() lines 338-341 with the chunks taken in any order, as a
\* caller running diarize_chunk_simple in parallel would append them.
DiarizeAnyOrder(k, outcome) ==
    /\ pc = "diarize"
    /\ k \in 1..Len(chunks)
    /\ k \notin Processed
    /\ segments' = segments \o diarize_chunk_simple(chunks[k], outcome)
    /\ outcomes' = Append(outcomes, [chunk_num |-> chunks[k].chunk_num,
                                     raised |-> outcome.raised,
                                     tracks |-> outcome.tracks])
    /\ UNCHANGED <<pc, probe, duration, chunk_duration, overlap, pause_threshold,
                   start_time, chunks, attempts, i, current, merged, disk,
                   aligned_results, files>>

\* split_audio after line 127 on a readable audio file of positive duration.
InitOrder ==
    /\ pc = "split"
    /\ \E d \in 1..MaxAudio : duration = d /\ probe = Probed(d)
    /\ chunk_duration \in {2, 3}
    /\ overlap \in {0, 1}
    /\ pause_threshold \in {0, 1}
    /\ disk = NoDisk
    /\ start_time = 0
    /\ chunks = <<>>
    /\ attempts = <<>>
    /\ outcomes = <<>>
    /\ segments = <<>>
    /\ i = 0
    /\ current = NoSegment
    /\ merged = <<>>
    /\ aligned_results = <<>>
    /\ files = {OutputDir}

NextOrder ==
    \/ \E ok \in BOOLEAN : SplitIter(ok)
    \/ SplitReturn
    \/ \E k \in 1..MaxAudio, outcome \in ModelOutcomes : DiarizeAnyOrder(k, outcome)
    \/ DiarizeDone
    \/ MergeBegin
    \/ MergeIter
    \/ MergeReturn

SpecOrder == InitOrder /\ [][NextOrder]_vars

----------------------------------------------------------------------------
(* Claims about the accumulation order *)

\* What chunk k contributed, from the record of it wherever it was appended.
ContributionOf(k) ==
    LET o == outcomes[CHOOSE j \in 1..Len(outcomes) : outcomes[j].chunk_num = k]
    IN  IF o.raised THEN <<>>
        ELSE [j \in 1..Len(o.tracks) |->
                 [start |-> o.tracks[j].start + chunks[k].start_offset,
                  end |-> o.tracks[j].end + chunks[k].start_offset,
                  speaker |-> o.tracks[j].speaker,
                  chunk_num |-> k]]

\* The list main() accumulates when the chunks are appended in window order.
RECURSIVE WindowOrder(_)
WindowOrder(n) ==
    IF n = 0 THEN <<>> ELSE WindowOrder(n - 1) \o ContributionOf(n)

InWindowOrder == \A j \in 1..Len(outcomes) : outcomes[j].chunk_num = j

NoCrossChunkTie ==
    LET all == WindowOrder(Len(chunks))
    IN  \A a, b \in 1..Len(all) :
            all[a].chunk_num # all[b].chunk_num => all[a].start # all[b].start

====
